---- MODULE Spec2Model ----
(***************************************************************************)
(* Inventory service of backend-course-2025-6 (main.js): the record store  *)
(* kept in <cache>/inventory.json, the photo files multer writes next to   *)
(* it, and the handlers of its routes: register, update, delete, list,     *)
(* get-by-id, photo and search.                                            *)
(*                                                                         *)
(* Node runs one handler at a time and every handler below is synchronous  *)
(* (readFileSync, writeFileSync, unlinkSync, existsSync): a handler runs   *)
(* from its readInv to its response with no other request in between, so   *)
(* each request is one atomic action.  POST /register is multer's          *)
(* upload.single('photo'), which stores the uploaded file, followed by the *)
(* handler; the model runs the two without another request in between.     *)
(*                                                                         *)
(* fs.writeFileSync opens the file with flag 'w' (truncate) and then       *)
(* writes; when it throws, the document is either untouched (the open      *)
(* failed) or left truncated (a write failed), and a truncated document    *)
(* does not parse.  Both outcomes are kept.                                *)
(***************************************************************************)
EXTENDS FiniteSets, Integers, Sequences, TLC

VARIABLES
    dbFile,     \* inventory.json: [valid |-> it parses, json |-> the parsed array]
    files,      \* the photo files present in cacheDir
    res,        \* the last response sent: [op, status], and the body of a read
    assigned    \* history: the ids handed out by 201 responses so far

vars == <<dbFile, files, res, assigned>>

(* ------------------------------ bounds -------------------------------- *)
MaxId == 2          \* a register that would assign a larger id is not taken
MaxRecords == 2     \* a register on a store that holds this many records is not taken

(* ------------------------------ values -------------------------------- *)
Undefined == "undefined"    \* a JS property that is absent from the request body
Null == <<>>                \* JS null

\* req.body of POST /register, as parsed by multer
RegisterBodies ==
    { [inventory_name |-> Undefined, description |-> "d"],
      [inventory_name |-> "",        description |-> Undefined],
      [inventory_name |-> "a",       description |-> Undefined],
      [inventory_name |-> "a",       description |-> "d"] }

\* req.body of PUT /inventory/:id, as parsed by express.json()
UpdateBodies ==
    { [name |-> n, description |-> d] : n \in {Undefined, "b"}, d \in {Undefined, "d"} }

\* req.params.id, by the number that == coerces the path string to;
\* MaxId + 1 is an id no record has
ParamIds == 1..(MaxId + 1)

\* the values Date.now() returns while multer names an uploaded file: two
\* uploads in the same millisecond read the same value
Instants == {"ms1", "ms2"}

\* outcome of fs.writeFileSync: done, threw at open, threw after truncating
IoOutcomes == {"ok", "open_failed", "write_failed"}

NoResponse == [op |-> "none", status |-> 0]

(* ------------------------------ helpers ------------------------------- *)
\* obj.key of a parsed JSON object: undefined when the key is absent
Field(obj, key) == IF key \in DOMAIN obj THEN obj[key] ELSE Undefined

\* JSON.stringify followed by JSON.parse of one object: a key whose value is
\* undefined is left out of the text
JsonObjectBlank(obj) ==
    [k \in DOMAIN obj
        |-> IF k \in {"name", "description"} /\ obj[k] = Undefined THEN "" ELSE obj[k]]
JsonObject(obj) ==
    [k \in (DOMAIN obj) \ {u \in {"name", "description"} \cap DOMAIN obj : obj[u] = Undefined}
        |-> obj[k]]

\* JSON.parse(JSON.stringify(data, null, 2)) of an array of records
JsonArray(data) == [i \in DOMAIN data |-> JsonObject(data[i])]

\* !!value for the strings a form field can hold
TruthyUnlessUndefined(value) == value # Undefined
Truthy(value) == value # Undefined /\ value # ""

\* multer.diskStorage: cacheDir / (Date.now() + extname)
UploadPath(t) == <<"cacheDir", t, ".jpg">>

\* req.file.path of POST /register, or null when no photo came with it
Uploads == {Null} \cup { UploadPath(t) : t \in Instants }

\* `http://${options.host}:${options.port}/inventory/${id}/photo`
PhotoUrlOfCount(id) == <<"http://host:port/inventory/", Len(dbFile.json), "/photo">>
PhotoUrl(id) == <<"http://host:port/inventory/", id, "/photo">>

\* a readInv whose catch returns a placeholder record
ReadInvOneRecord ==
    IF dbFile.valid THEN dbFile.json
    ELSE <<[id |-> 1, name |-> "a", photo |-> Null, photoUrl |-> Null]>>

\* readInv
ReadInv == IF dbFile.valid THEN dbFile.json ELSE <<>>

\* writeInv: the document after fs.writeFileSync returned or threw
WriteInv(data, io) ==
    CASE io = "ok"           -> [valid |-> TRUE, json |-> JsonArray(data)]
      [] io = "open_failed"  -> dbFile
      [] io = "write_failed" -> [valid |-> FALSE, json |-> <<>>]

Ids(inv) == { inv[i].id : i \in DOMAIN inv }

MaxOf(S) == CHOOSE m \in S : \A n \in S : n <= m

\* inv.length ? Math.max(...inv.map(i => i.id)) + 1 : 1
NextIdByLength(inv) == Len(inv) + 1
NextIdNoIncrement(inv) == IF Len(inv) # 0 THEN MaxOf(Ids(inv)) ELSE 1
NextIdFromLast(inv) == IF Len(inv) # 0 THEN inv[Len(inv)].id + 1 ELSE 1
NextId(inv) == IF Len(inv) # 0 THEN MaxOf(Ids(inv)) + 1 ELSE 1

\* inv.findIndex(i => i.id == id), counted from 1; 0 is JS's -1
FindIndexAtLeast(inv, id) ==
    IF \E i \in DOMAIN inv : inv[i].id >= id
    THEN CHOOSE i \in DOMAIN inv : inv[i].id >= id /\ \A j \in 1..(i - 1) : ~(inv[j].id >= id)
    ELSE 0
FindIndex(inv, id) ==
    IF \E i \in DOMAIN inv : inv[i].id = id
    THEN CHOOSE i \in DOMAIN inv : inv[i].id = id /\ \A j \in 1..(i - 1) : inv[j].id # id
    ELSE 0

\* the newItem literal of /register
NewItemUrlAlways(id, body, file) ==
    [ id          |-> id,
      name        |-> body.inventory_name,
      description |-> body.description,
      photo       |-> file,
      photoUrl    |-> PhotoUrl(id) ]
NewItem(id, body, file) ==
    [ id          |-> id,
      name        |-> body.inventory_name,
      description |-> body.description,
      photo       |-> file,
      photoUrl    |-> IF file # Null THEN PhotoUrl(id) ELSE Null ]

\* the two conditional assignments of PUT /inventory/:id
SetFieldsAlways(item, body) ==
    ("name" :> body.name) @@ ("description" :> body.description) @@ item
SetFields(item, body) ==
    LET named == IF body.name # Undefined THEN ("name" :> body.name) @@ item ELSE item
    IN  IF body.description # Undefined
        THEN ("description" :> body.description) @@ named
        ELSE named

\* inv.splice(idx, 1)
SpliceNothing(inv, idx) == inv
SpliceToEnd(inv, idx) == SubSeq(inv, 1, idx - 1)
Splice(inv, idx) == SubSeq(inv, 1, idx - 1) \o SubSeq(inv, idx + 1, Len(inv))

\* what the request got back: 500 from Express when writeInv threw
Response(op, okStatus, io) ==
    [op |-> op, status |-> IF io = "ok" THEN okStatus ELSE 500]

(* ------------------------------ actions ------------------------------- *)
\* lines 23-24: a new cache directory holds an empty inventory.json
Init ==
    /\ dbFile = [valid |-> TRUE, json |-> <<>>]
    /\ files = {}
    /\ res = NoResponse
    /\ assigned = {}

\* POST /register: upload.single('photo') stores the file, then the handler
RegisterHandler(body, file, io) ==
    /\ files' = IF file # Null THEN files \cup {file} ELSE files
    /\ IF ~Truthy(body.inventory_name)
       THEN /\ res' = [op |-> "register", status |-> 400]
            /\ UNCHANGED <<dbFile, assigned>>
       ELSE LET inv == ReadInv
                id == NextId(inv)
                newItem == NewItem(id, body, file)
            IN  /\ dbFile' = WriteInv(Append(inv, newItem), io)
                /\ res' = Response("register", 201, io)
                /\ assigned' = IF io = "ok" THEN assigned \cup {id} ELSE assigned

\* the model follows a store of at most MaxRecords records with ids up to MaxId
Register(body, file, io) ==
    /\ Truthy(body.inventory_name) => NextId(ReadInv) <= MaxId /\ Len(ReadInv) < MaxRecords
    /\ RegisterHandler(body, file, io)

\* PUT /inventory/:id
Update(id, body, io) ==
    LET inv == ReadInv
        idx == FindIndex(inv, id)
    IN  /\ IF idx = 0
           THEN /\ res' = [op |-> "update", status |-> 404]
                /\ UNCHANGED dbFile
           ELSE /\ dbFile' = WriteInv([inv EXCEPT ![idx] = SetFields(inv[idx], body)], io)
                /\ res' = Response("update", 200, io)
        /\ UNCHANGED <<files, assigned>>

\* fs.unlinkSync inside try/catch, after the existsSync test
Release(photo, unlinkOk) ==
    IF photo # Null /\ photo \in files /\ unlinkOk THEN files \ {photo} ELSE files

\* a delete without the try/catch around unlinkSync: a failed unlink ends the
\* request before splice and writeInv
DeleteUnlinkThrows(id, unlinkOk, io) ==
    LET inv == ReadInv
        idx == FindIndex(inv, id)
    IN  /\ IF idx = 0
           THEN /\ res' = [op |-> "delete", status |-> 404]
                /\ UNCHANGED <<dbFile, files>>
           ELSE IF inv[idx].photo # Null /\ inv[idx].photo \in files /\ ~unlinkOk
           THEN /\ res' = [op |-> "delete", status |-> 500]
                /\ UNCHANGED <<dbFile, files>>
           ELSE /\ files' = Release(inv[idx].photo, unlinkOk)
                /\ dbFile' = WriteInv(Splice(inv, idx), io)
                /\ res' = Response("delete", 200, io)
        /\ UNCHANGED assigned

\* DELETE /inventory/:id
Delete(id, unlinkOk, io) ==
    LET inv == ReadInv
        idx == FindIndex(inv, id)
    IN  /\ IF idx = 0
           THEN /\ res' = [op |-> "delete", status |-> 404]
                /\ UNCHANGED <<dbFile, files>>
           ELSE /\ files' = Release(inv[idx].photo, unlinkOk)
                /\ dbFile' = WriteInv(Splice(inv, idx), io)
                /\ res' = Response("delete", 200, io)
        /\ UNCHANGED assigned

\* the outcomes writeInv can have in a request: none to choose when the
\* request returns before it calls writeInv
Outcomes(writes) == IF writes THEN IoOutcomes ELSE {"ok"}

RegisterRequest ==
    \E body \in RegisterBodies, file \in Uploads :
       \E io \in Outcomes(Truthy(body.inventory_name)) : Register(body, file, io)

UpdateRequest ==
    \E id \in ParamIds, body \in UpdateBodies :
       \E io \in Outcomes(id \in Ids(ReadInv)) : Update(id, body, io)

DeleteRequest ==
    \E id \in ParamIds, unlinkOk \in BOOLEAN :
       \E io \in Outcomes(id \in Ids(ReadInv)) : Delete(id, unlinkOk, io)

Next == RegisterRequest \/ UpdateRequest \/ DeleteRequest

Spec == Init /\ [][Next]_vars

(* --------------------------- read requests ----------------------------- *)
\* a JS value by its type: the photo flag of a search
JsUndefined == [type |-> "undefined", value |-> ""]
JsString(s) == [type |-> "string", value |-> s]
JsTrue == [type |-> "boolean", value |-> "true"]

\* req.query.includePhoto of GET /search: a string or absent
QueryFlags == {JsUndefined, JsString("on"), JsString("true"), JsString("false")}

\* req.body of POST /search, as parsed by express.json()
SearchBodies ==
    { [has_photo |-> h, includePhoto |-> p] :
        h \in {JsUndefined, JsTrue, JsString("false")}, p \in {JsUndefined, JsString("on")} }

\* a || b of two flag values: a when a is truthy
JsOr(a, b) == IF a.type # "undefined" /\ a.value # "" THEN a ELSE b

\* withPhoto === 'on' || withPhoto === 'true' || withPhoto === true
WithPhoto(withPhoto) ==
    withPhoto \in {JsString("on"), JsString("true"), JsTrue}

\* `${photoUrl}`: the text of a photo URL
UrlText(photoUrl) == photoUrl[1] \o ToString(photoUrl[2]) \o photoUrl[3]

\* ` (Photo: ${resp.photoUrl})`
PhotoSuffix(photoUrl) == " (Photo: " \o UrlText(photoUrl) \o ")"

\* resp.description += suffix: an absent description reads as undefined, which
\* += turns into the text "undefined" before it appends
AppendText(description, suffix) == description \o suffix

\* res.status(404).json({ error })
NotFound(op, error) == [op |-> op, status |-> 404, body |-> [error |-> error]]

\* res.json(value)
Json(op, value) == [op |-> op, status |-> 200, body |-> value]

\* GET /inventory
List ==
    /\ res' = Json("list", ReadInv)
    /\ UNCHANGED <<dbFile, files, assigned>>

\* GET /inventory/:id
GetById(id) ==
    LET inv == ReadInv
        idx == FindIndex(inv, id)
    IN  /\ res' = IF idx # 0 THEN Json("get", inv[idx]) ELSE NotFound("get", "Not found")
        /\ UNCHANGED <<dbFile, files, assigned>>

\* GET /inventory/:id/photo
GetPhoto(id) ==
    LET inv == ReadInv
        idx == FindIndex(inv, id)
    IN  /\ res' = IF idx = 0 \/ inv[idx].photo = Null THEN NotFound("photo", "No photo")
                  ELSE IF inv[idx].photo \notin files THEN NotFound("photo", "File missing")
                  ELSE Json("photo", [file |-> inv[idx].photo])
        /\ UNCHANGED <<dbFile, files, assigned>>

\* the resp object doSearch sends for the item it found
Augmented(item, withPhoto) ==
    IF WithPhoto(withPhoto) /\ item.photoUrl # Null
    THEN ("description" :> AppendText(Field(item, "description"), PhotoSuffix(item.photoUrl)))
            @@ item
    ELSE item

\* doSearch: the response
DoSearch(id, withPhoto) ==
    LET inv == ReadInv
        idx == FindIndex(inv, id)
    IN  IF idx = 0 THEN NotFound("search", "Not found")
        ELSE Json("search", Augmented(inv[idx], withPhoto))

\* a doSearch that appends to the item it found and saves the array
SearchInPlace(id, withPhoto) ==
    LET inv == ReadInv
        idx == FindIndex(inv, id)
    IN  /\ res' = DoSearch(id, withPhoto)
        /\ dbFile' = IF idx = 0 THEN dbFile
                     ELSE WriteInv([inv EXCEPT ![idx] = Augmented(inv[idx], withPhoto)], "ok")
        /\ UNCHANGED <<files, assigned>>

\* doSearch: resp is a copy, nothing is written
Search(id, withPhoto) ==
    /\ res' = DoSearch(id, withPhoto)
    /\ UNCHANGED <<dbFile, files, assigned>>

ListRequest == List

GetByIdRequest == \E id \in ParamIds : GetById(id)

GetPhotoRequest == \E id \in ParamIds : GetPhoto(id)

\* GET /search
GetSearchRequest ==
    \E id \in ParamIds, includePhoto \in QueryFlags : Search(id, includePhoto)

\* POST /search
PostSearchRequest ==
    \E id \in ParamIds, body \in SearchBodies :
       Search(id, JsOr(body.has_photo, body.includePhoto))

\* every route of the service
NextWithReads ==
    \/ Next
    \/ ListRequest
    \/ GetByIdRequest
    \/ GetPhotoRequest
    \/ GetSearchRequest
    \/ PostSearchRequest

SpecWithReads == Init /\ [][NextWithReads]_vars

(* ------------------------ requests keep arriving ----------------------- *)
\* every handler returns, and the server takes the next request: a service
\* whose clients keep sending register, update and delete requests
SpecServing == Spec /\ WF_vars(Next)

(* ------------------- a cache directory that is not new ----------------- *)
\* line 24 keeps an inventory.json that exists: the records it holds, in any
\* order and with gaps between their ids
StoredRecords ==
    { JsonObject(NewItem(id, body, Null)) :
        id \in 1..MaxId, body \in { b \in RegisterBodies : Truthy(b.inventory_name) } }

ExistingStores ==
    { store \in UNION { [1..n -> StoredRecords] : n \in 0..MaxRecords } :
        \A i, j \in DOMAIN store : i # j => store[i].id # store[j].id }

InitAnyStore ==
    /\ dbFile \in { [valid |-> TRUE, json |-> store] : store \in ExistingStores }
    /\ files = {}
    /\ res = NoResponse
    /\ assigned = Ids(dbFile.json)

SpecAnyStore == InitAnyStore /\ [][Next]_vars

(* ------------------ one register on a store that exists ---------------- *)
NextOneRegister ==
    /\ res = NoResponse
    /\ \E body \in RegisterBodies, file \in Uploads :
          \E io \in Outcomes(Truthy(body.inventory_name)) : RegisterHandler(body, file, io)

SpecOneRegister == InitAnyStore /\ [][NextOneRegister]_vars

(* ------------------------- register requests only ---------------------- *)
SpecRegister == Init /\ [][RegisterRequest]_vars

(* ----------------------- writeInv and then readInv ---------------------- *)
\* the records the handlers hold in memory: newItem literals, description
\* undefined when the form had none
InMemoryRecords ==
    { NewItem(id, body, file) :
        id \in 1..MaxId,
        body \in { b \in RegisterBodies : Truthy(b.inventory_name) },
        file \in Uploads }

\* the arrays writeInv is called with
InMemoryArrays == UNION { [1..n -> InMemoryRecords] : n \in 0..MaxRecords }

\* writeInv(data) followed by readInv()
SaveThenLoad(data) ==
    /\ dbFile' = WriteInv(data, "ok")
    /\ res' = [op |-> "load", status |-> 200, saved |-> data, body |-> ReadInv']
    /\ UNCHANGED <<files, assigned>>

\* one call for each array
SaveThenLoadRequest ==
    /\ res = NoResponse
    /\ \E data \in InMemoryArrays : SaveThenLoad(data)

SpecSaveThenLoad == Init /\ [][SaveThenLoadRequest]_vars

(* ------------------------------ properties ----------------------------- *)
\* Every request sets res to its own route and status, so res'.op and
\* res'.status tell which handler a step ran and how it ended.

\* the id of the record a 201 register appended
AppendedId == ReadInv'[Len(ReadInv')].id

\* C1: no two records of the persisted store have the same id, in every state
\* reachable from a store of pairwise distinct ids by register, update and
\* delete requests
DistinctIds ==
    \A i, j \in DOMAIN ReadInv : i # j => ReadInv[i].id # ReadInv[j].id

\* a register appended a second record
DistinctIdsWitness ==
    /\ res = [op |-> "register", status |-> 201]
    /\ Len(ReadInv) = 2

\* C2 as stated: the id a register assigns was never assigned before, deleted
\* records included (checked for registers that load a well-formed document)
IdsNeverReused ==
    [][res'.op = "register" /\ res'.status = 201 /\ dbFile.valid
        => AppendedId \notin assigned]_vars

\* C2 amended: the id a register assigns is greater than the id of every record
\* in the store it loaded, so it differs from all of them
AssignedIdIsNew ==
    [][res'.op = "register" /\ res'.status = 201
        => \A i \in DOMAIN ReadInv : AppendedId > ReadInv[i].id]_vars

\* ids 1 and 2 were assigned, both records were deleted, and the register
\* that followed assigned 1 again
AssignedIdIsNewWitness ==
    /\ res = [op |-> "register", status |-> 201]
    /\ Ids(ReadInv) = {1}
    /\ assigned = {1, 2}

\* C4 as stated: every record with a non-null photo path references a file
\* that is on disk
PhotoFilesExist ==
    \A i \in DOMAIN ReadInv : ReadInv[i].photo # Null => ReadInv[i].photo \in files

\* C5 as stated: a successful delete removes the record with that id from the
\* store and removes its photo file whenever the record had one that existed
DeleteRemovesRecordAndFile ==
    [][res'.op = "delete" /\ res'.status = 200
        => /\ Cardinality(Ids(ReadInv) \ Ids(ReadInv')) = 1
           /\ \A i \in DOMAIN ReadInv :
                ReadInv[i].id \notin Ids(ReadInv') /\ ReadInv[i].photo \in files
                    => ReadInv[i].photo \notin files']_vars

\* C5 amended: a successful delete removes the record with that id from the
\* store, so no later load returns it, and removes its photo file when the
\* record had one, the file existed and unlinkSync did not throw
DeleteRemovesRecord ==
    [][res'.op = "delete" /\ res'.status = 200
        => \A id \in ParamIds, unlinkOk \in BOOLEAN :
             Delete(id, unlinkOk, "ok")
                => /\ id \in Ids(ReadInv)
                   /\ id \notin Ids(ReadInv')
                   /\ \A i \in DOMAIN ReadInv :
                        ReadInv[i].id = id /\ ReadInv[i].photo \in files /\ unlinkOk
                            => ReadInv[i].photo \notin files']_vars

\* a delete emptied the store and a file is still on disk
DeleteRemovesRecordWitness ==
    /\ res = [op |-> "delete", status |-> 200]
    /\ assigned \ Ids(ReadInv) # {}
    /\ ReadInv = <<>>
    /\ files # {}

\* C6 as stated: over register requests alone, run one after another, every id
\* assigned is greater than all ids assigned before
RegisterIdsIncrease ==
    [][res'.op = "register" /\ res'.status = 201
        => \A a \in assigned : AppendedId > a]_vars

\* C7: the id a register assigns is 1 on an empty store and otherwise the
\* largest id of the loaded records plus 1, whatever their order and gaps
NextIdIsMaxPlusOne ==
    [][res'.op = "register" /\ res'.status = 201
        => IF ReadInv = <<>>
           THEN AppendedId = 1
           ELSE /\ \E i \in DOMAIN ReadInv : AppendedId = ReadInv[i].id + 1
                /\ \A i \in DOMAIN ReadInv : AppendedId > ReadInv[i].id]_vars

\* a register on a store whose only record has id 2, a gap below it, assigned 3
NextIdIsMaxPlusOneWitness ==
    /\ res = [op |-> "register", status |-> 201]
    /\ Len(ReadInv) = 2
    /\ ReadInv[1].id = 2
    /\ ReadInv[2].id = 3

\* C8: a register whose inventory_name is absent or empty is answered 400 and
\* leaves the persisted store as it was, with or without an uploaded photo
\* (no step that such a request can take ends otherwise)
RegisterWithoutNameRejected ==
    [][res'.op = "register" /\ ~(res'.status = 400 /\ dbFile' = dbFile)
        => \A body \in RegisterBodies, file \in Uploads, io \in IoOutcomes :
             body.inventory_name \in {Undefined, ""} => ~Register(body, file, io)]_vars

\* a register was answered 400 while its uploaded photo stayed on disk and
\* nothing was ever stored
RegisterWithoutNameRejectedWitness ==
    /\ res = [op |-> "register", status |-> 400]
    /\ files # {}
    /\ dbFile = [valid |-> TRUE, json |-> <<>>]
    /\ assigned = {}

\* C9: an update for an id that no record has is answered 404 and leaves the
\* persisted store as it was (no step that such a request can take ends
\* otherwise)
UpdateOfMissingIdNotFound ==
    [][res'.op = "update" /\ ~(res'.status = 404 /\ dbFile' = dbFile)
        => \A id \in ParamIds \ Ids(ReadInv), body \in UpdateBodies, io \in IoOutcomes :
             ~Update(id, body, io)]_vars

\* an update was answered 404 on a store that holds records
UpdateOfMissingIdNotFoundWitness ==
    /\ res = [op |-> "update", status |-> 404]
    /\ Len(ReadInv) = 2

RecordKeys == {"id", "name", "description", "photo", "photoUrl"}

\* C10: a successful update keeps every record but the targeted one as it was;
\* of the targeted record it keeps id, photo and photoUrl, and sets name and
\* description each to the body's value when the body has one
UpdateChangesOnlyNameAndDescription ==
    [][res'.op = "update" /\ res'.status = 200
        => \A id \in ParamIds, body \in UpdateBodies :
             Update(id, body, "ok")
                => /\ Len(ReadInv') = Len(ReadInv)
                   /\ \A i \in DOMAIN ReadInv :
                        LET old == ReadInv[i]
                            new == ReadInv'[i]
                        IN  IF old.id # id
                            THEN new = old
                            ELSE /\ DOMAIN new \subseteq RecordKeys
                                 /\ new.id = old.id
                                 /\ new.photo = old.photo
                                 /\ new.photoUrl = old.photoUrl
                                 /\ Field(new, "name") =
                                      IF body.name # Undefined THEN body.name
                                      ELSE Field(old, "name")
                                 /\ Field(new, "description") =
                                      IF body.description # Undefined THEN body.description
                                      ELSE Field(old, "description")]_vars

\* an update renamed a record that has a photo, next to a record it left alone
UpdateChangesOnlyNameAndDescriptionWitness ==
    /\ res = [op |-> "update", status |-> 200]
    /\ Len(ReadInv) = 2
    /\ \E i, j \in DOMAIN ReadInv :
         /\ ReadInv[i].name = "b"
         /\ ReadInv[i].photo # Null
         /\ "description" \notin DOMAIN ReadInv[i]
         /\ ReadInv[j].name = "a"

\* C11: a search request (GET or POST, any id, any photo flag, found or not)
\* leaves inventory.json and the photo files as they were, also when the
\* description it returned carries the photo suffix
SearchLeavesStore ==
    [][res'.op = "search" => dbFile' = dbFile /\ files' = files]_vars

\* a search returned a description that differs from the stored one
SearchLeavesStoreWitness ==
    /\ res.op = "search"
    /\ res.status = 200
    /\ \E i \in DOMAIN ReadInv :
         /\ ReadInv[i].id = res.body.id
         /\ ReadInv[i].photoUrl # Null
         /\ Field(ReadInv[i], "description") = "d"
         /\ res.body.description = "d (Photo: http://host:port/inventory/1/photo)"

\* C12 as stated: a search for an id no record has answers 404; a search for an
\* id of the store returns the record, its description being the stored text
\* followed by " (Photo: <photoUrl>)" when the flag is true, "on" or "true" and
\* photoUrl is not null, and the stored description otherwise.  A record
\* without a description stores no text, so the suffix follows the empty text.
SearchAppendsPhotoSuffix ==
    [][res'.op = "search"
        => \A id \in ParamIds, withPhoto \in QueryFlags \cup {JsTrue} :
             Search(id, withPhoto)
                => IF id \notin Ids(ReadInv)
                   THEN res'.status = 404
                   ELSE \E i \in DOMAIN ReadInv :
                          LET item == ReadInv[i]
                              stored == IF "description" \in DOMAIN item
                                        THEN item.description ELSE ""
                          IN  /\ item.id = id
                              /\ res'.status = 200
                              /\ res'.body.id = id
                              /\ IF /\ withPhoto \in {JsTrue, JsString("on"), JsString("true")}
                                    /\ item.photoUrl # Null
                                 THEN res'.body.description =
                                        stored \o " (Photo: " \o UrlText(item.photoUrl) \o ")"
                                 ELSE Field(res'.body, "description")
                                        = Field(item, "description")]_vars

\* C13: in every reachable state each record of the store has a photoUrl
\* exactly when it has a photo path, which register sets from the uploaded
\* file, and an update request leaves the photoUrl of every record it keeps
PhotoUrlIffPhoto ==
    /\ [](\A i \in DOMAIN ReadInv : ReadInv[i].photoUrl # Null <=> ReadInv[i].photo # Null)
    /\ [][res'.op = "update"
            => \A i \in DOMAIN ReadInv, j \in DOMAIN ReadInv' :
                 ReadInv'[j].id = ReadInv[i].id
                    => ReadInv'[j].photoUrl = ReadInv[i].photoUrl]_vars

\* an update renamed a record that has a photoUrl, next to one that has none
PhotoUrlIffPhotoWitness ==
    /\ res = [op |-> "update", status |-> 200]
    /\ \E i, j \in DOMAIN ReadInv :
         /\ ReadInv[i].name = "b"
         /\ ReadInv[i].photoUrl = PhotoUrl(ReadInv[i].id)
         /\ ReadInv[j].photoUrl = Null

\* C14 as stated: list, get-by-id and search return records of the store as
\* the most recent successful save wrote it: a request that does not end in
\* 200 or 201 (its save threw, it was rejected, nothing was found) leaves what
\* readInv returns as it was, and a read returns what readInv returns
ReadsReflectLastSave ==
    [][/\ res'.status \notin {200, 201} => ReadInv' = ReadInv
       /\ res'.op \in {"list", "get", "search", "photo"} => ReadInv' = ReadInv
       /\ res'.op = "list" => res'.body = ReadInv
       /\ res'.op \in {"get", "search"} /\ res'.status = 200
            => \E i \in DOMAIN ReadInv :
                 \A k \in {"id", "name", "photo", "photoUrl"} : res'.body[k] = ReadInv[i][k]]_vars

\* C15: readInv after writeInv(x) returns as many records as x has, in the
\* same order, and id, name, description, photo and photoUrl of each read the
\* same as in x; a description that is undefined in x is absent from the
\* loaded record and reads as undefined
SaveThenLoadIsSame ==
    res.op = "load"
        => /\ Len(res.body) = Len(res.saved)
           /\ \A i \in DOMAIN res.saved, k \in RecordKeys :
                Field(res.body[i], k) = Field(res.saved[i], k)

\* a record with a photo and an undefined description was saved and loaded
SaveThenLoadIsSameWitness ==
    /\ res.op = "load"
    /\ Len(res.saved) = 2
    /\ \E i \in DOMAIN res.saved :
         /\ res.saved[i].description = Undefined
         /\ res.saved[i].photo # Null
         /\ "description" \notin DOMAIN res.body[i]
         /\ res.body[i].photoUrl = res.saved[i].photoUrl

\* C16 as stated: a register, update or delete request whose writeInv threw
\* does not answer 201 / Updated / Deleted, and the records inventory.json
\* holds after the request are those it held before it
FailedSaveLeavesStore ==
    [][res'.op \in {"register", "update", "delete"} /\ res'.status \notin {400, 404}
        => \A io \in IoOutcomes \ {"ok"} :
             /\ \A body \in RegisterBodies, file \in Uploads :
                  Register(body, file, io) /\ Truthy(body.inventory_name)
                     => res'.status \notin {200, 201} /\ ReadInv' = ReadInv
             /\ \A id \in Ids(ReadInv), body \in UpdateBodies :
                  Update(id, body, io)
                     => res'.status \notin {200, 201} /\ ReadInv' = ReadInv
             /\ \A id \in Ids(ReadInv), unlinkOk \in BOOLEAN :
                  Delete(id, unlinkOk, io)
                     => res'.status \notin {200, 201} /\ ReadInv' = ReadInv]_vars

\* C17: for a request that finds inventory.json malformed, readInv returns []
\* and does not throw: list answers 200 with the empty array, get-by-id,
\* search, update and delete answer 404, and a register that answers 201 has
\* assigned id 1 and written a document that holds this one record
LoadFailsSoft ==
    [][~dbFile.valid
        => /\ res'.op = "list" => res'.status = 200 /\ res'.body = <<>>
           /\ res'.op \in {"get", "search", "update", "delete"}
                => res'.status = 404 /\ dbFile' = dbFile
           /\ res'.op = "register" /\ res'.status = 201
                => /\ dbFile'.valid
                   /\ Len(dbFile'.json) = 1
                   /\ dbFile'.json[1].id = 1
                   /\ dbFile'.json[1].name = "a"]_vars

\* a list request on a malformed document, after ids were assigned
LoadFailsSoftWitness ==
    /\ ~dbFile.valid
    /\ assigned # {}
    /\ res.op = "list"
    /\ res.status = 200
    /\ res.body = <<>>

\* C18: a delete of a stored record whose unlinkSync throws, or whose photo
\* file is not there, and whose save succeeds answers 200 and the record is
\* gone from the store; the files on disk are those there were
DeleteSurvivesUnlinkFailure ==
    [][res'.op = "delete"
        => \A id \in Ids(ReadInv) :
             Delete(id, FALSE, "ok")
                => /\ res'.status = 200
                   /\ id \notin Ids(ReadInv')
                   /\ Len(ReadInv') = Len(ReadInv) - 1
                   /\ files' = files]_vars

\* a delete removed the only record and its photo file is still on disk
DeleteSurvivesUnlinkFailureWitness ==
    /\ res = [op |-> "delete", status |-> 200]
    /\ dbFile = [valid |-> TRUE, json |-> <<>>]
    /\ assigned = {1}
    /\ Cardinality(files) = 1

WritesKeepOtherRecords ==
    [][res'.op \in {"register", "update", "delete"} /\ res'.status \in {200, 201}
        => /\ res'.op = "register"
                => /\ Len(ReadInv') = Len(ReadInv) + 1
                   /\ \A i \in DOMAIN ReadInv : ReadInv'[i] = ReadInv[i]
           /\ res'.op = "update"
                => /\ Len(ReadInv') = Len(ReadInv)
                   /\ \A i \in DOMAIN ReadInv : ReadInv'[i].id = ReadInv[i].id
                   /\ \E idx \in DOMAIN ReadInv :
                        \A i \in DOMAIN ReadInv \ {idx} : ReadInv'[i] = ReadInv[i]
           /\ res'.op = "delete"
                => \A id \in ParamIds, unlinkOk \in BOOLEAN :
                     Delete(id, unlinkOk, "ok")
                        => \E idx \in DOMAIN ReadInv :
                             /\ ReadInv[idx].id = id
                             /\ \A i \in 1..(idx - 1) : ReadInv[i].id # id
                             /\ Len(ReadInv') = Len(ReadInv) - 1
                             /\ \A i \in 1..(idx - 1) : ReadInv'[i] = ReadInv[i]
                             /\ \A i \in idx..Len(ReadInv') : ReadInv'[i] = ReadInv[i + 1]]_vars

\* a delete removed one of two records and left the one with id 1
WritesKeepOtherRecordsWitness ==
    /\ res = [op |-> "delete", status |-> 200]
    /\ assigned = {1, 2}
    /\ Len(ReadInv) = 1
    /\ ReadInv[1].id = 1
    /\ files = {}
====
